---- MODULE Spec2Model ----
(***************************************************************************)
(* The tick-driven multi-queue dispatcher of the AVIOS scheduler simulator *)
(* (LinuxBaselineScheduler and AIScheduler) together with the simulation   *)
(* driver loop of ai_simulator.py.                                         *)
(*                                                                         *)
(* Conventions.                                                            *)
(*  - Python None is the integer None (-1); a core with no task holds      *)
(*    NoTask (0); pids are 1, 2, ...                                       *)
(*  - A float vruntime is an exact rational <<n, d>> in lowest terms, or   *)
(*    NaN (<<0, 0>>), which an empty se.vruntime cell of the table gives.  *)
(*  - subqueue_score is kept as score200 = 200 * score, an integer.        *)
(*  - A CFS heap (heapq list) is the set of its entries; heappop removes   *)
(*    the least entry by (vruntime, counter), which is all heapq lets a    *)
(*    caller observe besides len() and iteration over the entries.         *)
(***************************************************************************)
EXTENDS Integers, Sequences, FiniteSets, TLC

(* ------------------------------ bounds -------------------------------- *)
MaxCores == 2
MaxTasks == 2
MaxArrival == 1
MaxTicks == 7
MaxHeap == 3
MaxPopIters == 6
MaxCap == 2

(* ------------------------- program constants -------------------------- *)
NICE0_WEIGHT == 1024
min_granularity == 1
sched_latency_ticks == 48
None == -1
NoTask == 0
MaxTicksCap == 70000
DefaultRRQuantum == 100

(* ------------------------ rational arithmetic ------------------------- *)
Abs(x) == IF x < 0 THEN -x ELSE x

RECURSIVE Gcd(_, _)
Gcd(a, b) == IF b = 0 THEN a ELSE Gcd(b, a % b)

Norm(n, d) ==
    LET g == Gcd(Abs(n), Abs(d))
        s == IF d < 0 THEN -1 ELSE 1
    IN  <<(s * n) \div g, (s * d) \div g>>

RatInt(i) == <<i, 1>>

\* float('nan'): every comparison with it is false
NaN == <<0, 0>>
IsNaN(a) == a[2] = 0

\* a and b over their least common denominator: <<numerator of a, of b, lcd>>
RatCommon(a, b) ==
    LET g == Gcd(a[2], b[2])
    IN  <<a[1] * (b[2] \div g), b[1] * (a[2] \div g), (a[2] \div g) * b[2]>>

RatAdd(a, b) ==
    IF IsNaN(a) \/ IsNaN(b) THEN NaN
    ELSE LET c == RatCommon(a, b) IN Norm(c[1] + c[2], c[3])

RatLess(a, b) ==
    IF IsNaN(a) \/ IsNaN(b) THEN FALSE
    ELSE LET c == RatCommon(a, b) IN c[1] < c[2]

\* abs(float(a) - float(b)) < 1e-6
RatClose(a, b) ==
    IF IsNaN(a) \/ IsNaN(b) THEN FALSE
    ELSE LET c == RatCommon(a, b)
             num == Abs(c[1] - c[2])
         IN  num = 0 \/ num <= (c[3] - 1) \div 1000000

(* --------------------------- input rows ------------------------------- *)
(* One row of the simulator input table.  Total_Time_Ticks and             *)
(* se_load_weight are None when the column is missing; se.sum_exec_runtime *)
(* is a float, given in halves of a tick (sum_exec_halves = 5 is 2.5);     *)
(* se_vruntime is an integer, or NotANumber for an empty cell.             *)
Policies == {"SCHED_FIFO", "SCHED_RR", "SCHED_IDLE", "SCHED_OTHER", "SCHED_BATCH"}

ResourceLabels == {"CPU-bound", "Mixed", "IO-bound"}
InteractivityLabels == {"Real-time", "Interactive", "Other", "Background", "Batch"}
ExecutionLabels == {"Short", "Medium", "Long"}
PriorityLabels == {"High", "Medium", "Low"}

\* What the classifier capability does for one category of one row: the
\* label its decoder returns, or one of the two ways it can raise.
PredictRaises == "predict-raises"
DecodeRaises == "decode-raises"

Row(pid, arr, pol, ttt, seh, vr, w, clf) ==
    [PID |-> pid, Arrival_Sec |-> arr, Scheduling_Policy |-> pol,
     Total_Time_Ticks |-> ttt, sum_exec_halves |-> seh,
     se_vruntime |-> vr, se_load_weight |-> w, clf |-> clf]

Clf(r, i, p, e) == [resource |-> r, interactivity |-> i, priority |-> p, execution |-> e]

\* the cell value pandas gives an empty numeric cell
NotANumber == -2

\* float(x) of a se.vruntime cell
FloatOf(x) == IF x = NotANumber THEN NaN ELSE RatInt(x)

\* int(x) of a non-negative float given in halves
IntOfHalves(h) == h \div 2

(* ------------------------------ Task ---------------------------------- *)
\* str(uuid.uuid4())[:8]: a value drawn afresh for every Task object, so the
\* same row gets different values in different runs of the program
Uuid4(run, pid) == <<run, pid>>

\* Task.__init__
TaskInit(row) ==
    LET total_time == IF row.Total_Time_Ticks > 0
                      THEN row.Total_Time_Ticks
                      ELSE IntOfHalves(row.sum_exec_halves)
    IN  [pid |-> row.PID,
         features |-> row,
         total_time |-> total_time,
         remaining |-> total_time,
         arrival_time |-> row.Arrival_Sec,
         resource_type |-> "None",
         interactivity |-> "None",
         priority_class |-> "None",
         execution_class |-> "None",
         score200 |-> None,
         assigned_scheduler |-> "None",
         subqueue |-> "None",
         quantum |-> None,
         total_run |-> 0,
         first_start |-> None,
         completion_time |-> None,
         uid |-> Uuid4(0, row.PID),
         vruntime |-> FloatOf(row.se_vruntime),
         weight |-> IF row.se_load_weight = None THEN NICE0_WEIGHT ELSE row.se_load_weight]

(* ------------------------------ state --------------------------------- *)
VARIABLES
    variant,            \* "BASE": LinuxBaselineScheduler, "AI": AIScheduler
    num_cores,          \* constructor argument
    rr_quantum,         \* constructor argument
    arrivals,           \* driver: the input table, sorted by Arrival_Sec
    last_arrival,       \* driver
    max_ticks,          \* driver: the safety cap
    current_time,       \* driver
    nadmitted,          \* driver: rows of the table consumed so far
    pc,                 \* "admit" | "pick" | "run" | "check" | "done"; "pop" | "popped"
    cur,                \* tick(): the core the loop is at
    time,               \* scheduler.time
    task_map,           \* pid -> Task
    queues,             \* [FIFO, RR, IDLE: Seq(pid), CFS: set of heap entries]
    insertion_counter,  \* next value of itertools.count()
    cores,              \* cid -> [task, time_left]
    logs,               \* the event log
    completed_tasks,    \* pids of completed_tasks
    context_switches,
    lastpop,            \* what the latest _cfs_pop_min did
    tick_start,         \* history: ready tasks and idle cores when the tick began
    twin                \* the scheduler of a second run on the same inputs

vars == <<variant, num_cores, rr_quantum, arrivals, last_arrival, max_ticks,
          current_time, nadmitted, pc, cur, time, task_map, queues,
          insertion_counter, cores, logs, completed_tasks, context_switches,
          lastpop, tick_start, twin>>


(* The scheduler object as one value, so that the methods below are       *)
(* functions from scheduler state to scheduler state.                     *)
Self ==
    [time |-> time, task_map |-> task_map, queues |-> queues,
     insertion_counter |-> insertion_counter, cores |-> cores, logs |-> logs,
     completed_tasks |-> completed_tasks, context_switches |-> context_switches,
     lastpop |-> lastpop]

SetSelf(S) ==
    /\ time' = S.time
    /\ task_map' = S.task_map
    /\ queues' = S.queues
    /\ insertion_counter' = S.insertion_counter
    /\ cores' = S.cores
    /\ logs' = S.logs
    /\ completed_tasks' = S.completed_tasks
    /\ context_switches' = S.context_switches
    /\ lastpop' = S.lastpop

NoPop ==
    [ret |-> NoTask, pid |-> NoTask, snap |-> RatInt(0), live |-> RatInt(0), iters |-> 0]

\* __init__ of either scheduler
NewScheduler(n) ==
    [time |-> 0,
     task_map |-> <<>>,
     queues |-> [FIFO |-> <<>>, RR |-> <<>>, CFS |-> {}, IDLE |-> <<>>],
     insertion_counter |-> 0,
     cores |-> [cid \in 0..(n - 1) |-> [task |-> NoTask, time_left |-> 0]],
     logs |-> <<>>,
     completed_tasks |-> {},
     context_switches |-> 0,
     lastpop |-> NoPop]

(* ------------------------------ _log ---------------------------------- *)
\* a log row that also records the uid of the Task object
LogRowWithUid(S, event_type, t, core) ==
    [time |-> S.time, event |-> event_type, core |-> core, pid |-> t.pid,
     assigned_scheduler |-> t.assigned_scheduler, remaining |-> t.remaining,
     quantum |-> t.quantum, vruntime |-> t.vruntime, uid |-> t.uid]

LogRow(S, event_type, t, core) ==
    [time |-> S.time, event |-> event_type, core |-> core, pid |-> t.pid,
     assigned_scheduler |-> t.assigned_scheduler, remaining |-> t.remaining,
     quantum |-> t.quantum, vruntime |-> t.vruntime]

Log(S, event_type, pid, core) ==
    [S EXCEPT !.logs = Append(@, LogRow(S, event_type, S.task_map[pid], core))]

(* --------------------------- all_queues_empty ------------------------- *)
AllQueuesEmpty(S) ==
    /\ Len(S.queues.FIFO) = 0
    /\ Len(S.queues.RR) = 0
    /\ Cardinality(S.queues.CFS) = 0
    /\ Len(S.queues.IDLE) = 0
    /\ \A cid \in DOMAIN S.cores : S.cores[cid].task = NoTask

(* ------------------------- CFS heap: insert / pop --------------------- *)
\* tuple order of heap entries (vruntime, counter, ...): counters are unique
EntryLess(e, f) ==
    \/ RatLess(e.vr, f.vr)
    \/ (e.vr = f.vr /\ e.seq < f.seq)

\* the greatest entry of a heap
HeapMax(heap) == CHOOSE e \in heap : \A f \in heap \ {e} : EntryLess(f, e)

HeapMin(heap) == CHOOSE e \in heap : \A f \in heap \ {e} : EntryLess(e, f)

\* the snapshot _cfs_insert pushes for a task
EntrySnapshot(t) == t.vruntime

CfsInsert(S, pid) ==
    LET entry == [vr |-> EntrySnapshot(S.task_map[pid]),
                  seq |-> S.insertion_counter, pid |-> pid]
    IN  [S EXCEPT !.queues.CFS = @ \cup {entry},
                  !.insertion_counter = @ + 1]

\* a validity test that accepts every popped entry
EntryAlwaysValid(live, snap) == TRUE

\* the validity test of a popped entry
EntryValid(live, snap) == RatClose(live, snap)

\* One iteration of the while loop of _cfs_pop_min: heappop, then return
\* the task or push a fresh entry.  lastpop records the popped entry.
CfsPopIter(S) ==
    LET e == HeapMin(S.queues.CFS)
        t == S.task_map[e.pid]
        popped == [S EXCEPT !.queues.CFS = @ \ {e}]
    IN  IF EntryValid(t.vruntime, e.vr)
        THEN [popped EXCEPT !.lastpop = [ret |-> e.pid, pid |-> e.pid, snap |-> e.vr,
                                         live |-> t.vruntime, iters |-> @.iters + 1]]
        ELSE [CfsInsert(popped, e.pid) EXCEPT
                  !.lastpop = [ret |-> NoTask, pid |-> e.pid, snap |-> e.vr,
                               live |-> t.vruntime, iters |-> @.iters + 1]]

\* _cfs_pop_min: the loop; lastpop.ret is the task returned (NoTask: None)
RECURSIVE CfsPopLoop(_)
CfsPopLoop(S) ==
    IF S.queues.CFS = {}
    THEN [S EXCEPT !.lastpop.ret = NoTask]
    ELSE LET S1 == CfsPopIter(S)
         IN  IF S1.lastpop.ret # NoTask THEN S1 ELSE CfsPopLoop(S1)

CfsPopMin(S) == CfsPopLoop([S EXCEPT !.lastpop = NoPop])

(* ---------------------- _enqueue_task / _dequeue_task ----------------- *)
EnqueueTask(S, pid) ==
    LET sched == S.task_map[pid].assigned_scheduler
        S1 == IF sched = "CFS"
              THEN CfsInsert(S, pid)
              ELSE [S EXCEPT !.queues[sched] = Append(@, pid)]
    IN  Log(S1, "ENQUEUE", pid, None)

\* the state after the dequeue; the task dequeued is DequeuedTask
DequeueTask(S, sched) ==
    IF sched = "CFS"
    THEN CfsPopMin(S)
    ELSE [S EXCEPT !.queues[sched] = Tail(@)]

DequeuedTask(S, sched) ==
    IF sched = "CFS" THEN CfsPopMin(S).lastpop.ret ELSE Head(S.queues[sched])

(* ------------------------------ admission ----------------------------- *)
\* the class an explicit Scheduling_Policy selects; "None" when it selects none
PolicyClass(pol) ==
    CASE pol = "SCHED_FIFO" -> "FIFO"
      [] pol = "SCHED_RR" -> "RR"
      [] pol = "SCHED_IDLE" -> "IDLE"
      [] OTHER -> "None"

SubqueueOf(sched) ==
    CASE sched = "FIFO" -> "fifo_1"
      [] sched = "RR" -> "rr_1"
      [] sched = "IDLE" -> "idle"
      [] OTHER -> "cfs_1"

\* admit: "set remaining if not already set"
AdmitRemaining(t) ==
    IF t.remaining = 0
    THEN IF t.features.Total_Time_Ticks # None
         THEN t.features.Total_Time_Ticks
         ELSE (IF t.total_time # 0 THEN t.total_time ELSE 1)
    ELSE t.remaining

\* admit: "ensure vruntime and weight"
AdmitWeight(t) ==
    IF t.features.se_load_weight # None
    THEN t.features.se_load_weight
    ELSE (IF t.weight # 0 THEN t.weight ELSE NICE0_WEIGHT)

\* LinuxBaselineScheduler.admit: the class from Scheduling_Policy alone
BaselineAssign(t) ==
    LET c == PolicyClass(t.features.Scheduling_Policy)
        sched == IF c = "None" THEN "CFS" ELSE c
    IN  [t EXCEPT !.assigned_scheduler = sched, !.subqueue = SubqueueOf(sched)]

\* an RR quantum of one tick whatever rr_quantum is
RRQuantumOneTick(rrq) == min_granularity

BaselineRRQuantum(rrq) == IF rrq > min_granularity THEN rrq ELSE min_granularity

\* the fields LinuxBaselineScheduler.admit sets on the task
BaselineAdmitTask(t0, rrq) ==
    LET t1 == BaselineAssign(t0)
    IN  [t1 EXCEPT !.remaining = AdmitRemaining(t1),
                   !.vruntime = FloatOf(t1.features.se_vruntime),
                   !.weight = AdmitWeight(t1),
                   !.quantum = IF t1.assigned_scheduler = "RR"
                               THEN BaselineRRQuantum(rrq) ELSE None]

(* --------------------------- AI helpers ------------------------------- *)
Raises(o) == o \in {PredictRaises, DecodeRaises}

\* a classification that leaves a failed category as Task.__init__ set it
ClassifyWithoutDefaults(t) ==
    LET c == t.features.clf
    IN  [t EXCEPT
           !.resource_type = IF Raises(c.resource) THEN @ ELSE c.resource,
           !.interactivity = IF Raises(c.interactivity) THEN @ ELSE c.interactivity,
           !.priority_class = IF Raises(c.priority) THEN @ ELSE c.priority,
           !.execution_class = IF Raises(c.execution) THEN @ ELSE c.execution]

\* _classify_task: the four categories run in the order resource,
\* interactivity, priority, execution inside one try block; a decoder that
\* raises is caught by the category's own try, anything else by the outer
\* except, which leaves the category and all later ones at None and then
\* fills every None with its default.
ClassifyTask(t) ==
    LET c == t.features.clf
        ran2 == c.resource # PredictRaises
        ran3 == ran2 /\ c.interactivity # PredictRaises
        ran4 == ran3 /\ c.priority # PredictRaises
    IN  [t EXCEPT
           !.resource_type = IF Raises(c.resource) THEN "Mixed" ELSE c.resource,
           !.interactivity = IF ran2 /\ ~Raises(c.interactivity)
                             THEN c.interactivity ELSE "Other",
           !.priority_class = IF ran3 /\ ~Raises(c.priority)
                              THEN c.priority ELSE "Medium",
           !.execution_class = IF ran4 /\ ~Raises(c.execution)
                               THEN c.execution ELSE "Medium"]

\* _map_numeric_labels; the interactivity value is doubled (Background is 1.5)
Rmap(l) == CASE l = "CPU-bound" -> 3 [] l = "Mixed" -> 2 [] l = "IO-bound" -> 1 [] OTHER -> 2
Imap2(l) ==
    CASE l = "Real-time" -> 8 [] l = "Interactive" -> 6 [] l = "Other" -> 4
      [] l = "Background" -> 3 [] l = "Batch" -> 2 [] OTHER -> 4
Emap(l) == CASE l = "Short" -> 3 [] l = "Medium" -> 2 [] l = "Long" -> 1 [] OTHER -> 2
Pmap(l) == CASE l = "High" -> 3 [] l = "Medium" -> 2 [] l = "Low" -> 1 [] OTHER -> 2

\* a score that counts every interactivity label as Real-time
ScoreTopInteractivity(t) ==
    40 * Rmap(t.resource_type) + 35 * 8
      + 40 * Emap(t.execution_class) + 60 * Pmap(t.priority_class)

\* _compute_subqueue_score, times 200: 0.2 R + 0.35 I + 0.2 E + 0.3 P
ComputeSubqueueScore(t) ==
    40 * Rmap(t.resource_type) + 35 * Imap2(t.interactivity)
      + 40 * Emap(t.execution_class) + 60 * Pmap(t.priority_class)

\* label rules in which Real-time is sent to RR
AssignRealTimeToRR(t) ==
    LET sched ==
          IF t.interactivity = "Real-time" THEN "RR"
          ELSE IF \/ (t.interactivity = "Interactive" /\ t.execution_class = "Short"
                        /\ t.priority_class = "High")
                  \/ t.score200 > 520
               THEN "RR"
               ELSE "CFS"
    IN  [t EXCEPT !.assigned_scheduler = sched, !.subqueue = SubqueueOf(sched)]

\* _assign_scheduler_and_subqueue, reached when the policy is none of
\* SCHED_FIFO, SCHED_RR, SCHED_IDLE
AssignSchedulerAndSubqueue(t) ==
    LET sched ==
          IF t.interactivity = "Real-time" THEN "FIFO"
          ELSE IF \/ (t.interactivity = "Interactive" /\ t.execution_class = "Short"
                        /\ t.priority_class = "High")
                  \/ t.score200 > 520
               THEN "RR"
               ELSE "CFS"
    IN  [t EXCEPT !.assigned_scheduler = sched, !.subqueue = SubqueueOf(sched)]

\* an assignment by the label rules alone
AIAssignLabelsFirst(t) == AssignSchedulerAndSubqueue(t)

\* AIScheduler.admit: explicit policy first, else the label rules
AIAssign(t) ==
    LET c == PolicyClass(t.features.Scheduling_Policy)
    IN  IF c # "None"
        THEN [t EXCEPT !.assigned_scheduler = c, !.subqueue = SubqueueOf(c)]
        ELSE AssignSchedulerAndSubqueue(t)

\* an interpolation applied to every score, without the two plateaus
AIRRQuantumUnclamped(score200) == 100 + ((score200 - 500) * 100) \div 130

\* the RR quantum of the AI variant, from the score (admit and dispatch)
AIRRQuantum(score200) ==
    IF score200 <= 500 THEN 100
    ELSE IF score200 >= 630 THEN 200
    ELSE 100 + ((score200 - 500) * 100) \div 130

\* the fields AIScheduler.admit sets on the task
AIAdmitTask(t0) ==
    LET t1 == ClassifyTask(t0)
        t2 == [t1 EXCEPT !.score200 = ComputeSubqueueScore(t1)]
        t3 == [t2 EXCEPT !.remaining = AdmitRemaining(t2)]
        t4 == AIAssign(t3)
    IN  [t4 EXCEPT !.vruntime = FloatOf(t4.features.se_vruntime),
                   !.weight = AdmitWeight(t4),
                   !.quantum = IF t4.assigned_scheduler = "RR"
                               THEN AIRRQuantum(t4.score200) ELSE t4.quantum]

\* admit(task, current_time) of the scheduler the driver built
AdmitObject(S, v, rrq, t0) ==
    LET t == IF v = "AI" THEN AIAdmitTask(t0) ELSE BaselineAdmitTask(t0, rrq)
        S1 == [S EXCEPT !.task_map = (t.pid :> t) @@ @]
    IN  EnqueueTask(Log(S1, "ADMIT", t.pid, None), t.pid)

\* Task.from_row(row) followed by scheduler.admit(t, current_time)
AdmitTask(S, v, rrq, row) == AdmitObject(S, v, rrq, TaskInit(row))

\* the same in the second run, where the Task object draws another uid
TwinAdmitTask(S, v, rrq, row) ==
    AdmitObject(S, v, rrq, [TaskInit(row) EXCEPT !.uid = Uuid4(1, row.PID)])

(* ---------------------------- pick & dispatch ------------------------- *)
QueueLen(S, sched) ==
    IF sched = "CFS" THEN Cardinality(S.queues.CFS) ELSE Len(S.queues[sched])

\* the number of entries in all ready subqueues
ReadyCount(S) ==
    QueueLen(S, "FIFO") + QueueLen(S, "RR") + QueueLen(S, "CFS") + QueueLen(S, "IDLE")

\* a pick that goes through the classes in the opposite order
PickLastFirst(S) ==
    IF QueueLen(S, "IDLE") > 0 THEN "IDLE"
    ELSE IF QueueLen(S, "CFS") > 0 THEN "CFS"
    ELSE IF QueueLen(S, "RR") > 0 THEN "RR"
    ELSE IF QueueLen(S, "FIFO") > 0 THEN "FIFO"
    ELSE "None"

\* a pick that never looks at the IDLE class
PickSkippingIdle(S) ==
    IF QueueLen(S, "FIFO") > 0 THEN "FIFO"
    ELSE IF QueueLen(S, "RR") > 0 THEN "RR"
    ELSE IF QueueLen(S, "CFS") > 0 THEN "CFS"
    ELSE "None"

\* the pids of a CFS heap in the order successive pops return them
RECURSIVE CfsOrder(_)
CfsOrder(heap) ==
    IF heap = {} THEN <<>>
    ELSE <<HeapMin(heap).pid>> \o CfsOrder(heap \ {HeapMin(heap)})

\* the waiting tasks as the queue order ranks them: by class in the default
\* priority order, and within a class in the order of its subqueue
RankOrder(S) ==
    S.queues.FIFO \o S.queues.RR \o CfsOrder(S.queues.CFS) \o S.queues.IDLE

\* the default per-core priority order
PriorityOrder == <<"FIFO", "RR", "CFS", "IDLE">>

\* _pick_task_for_core: the first class in the order with a non-empty
\* subqueue, "None" when there is none; nothing is removed
PickTaskForCore(S) ==
    IF \A i \in 1..Len(PriorityOrder) : QueueLen(S, PriorityOrder[i]) = 0
    THEN "None"
    ELSE PriorityOrder[CHOOSE i \in 1..Len(PriorityOrder) :
                          /\ QueueLen(S, PriorityOrder[i]) > 0
                          /\ \A j \in 1..(i - 1) : QueueLen(S, PriorityOrder[j]) = 0]

\* int() of the quotient a / b: truncation towards zero
TruncDiv(a, b) ==
    IF (a >= 0) = (b > 0) THEN Abs(a) \div Abs(b) ELSE -(Abs(a) \div Abs(b))

Max(a, b) == IF a >= b THEN a ELSE b

RECURSIVE SumWeights(_, _)
SumWeights(tm, heap) ==
    IF heap = {} THEN 0
    ELSE LET e == CHOOSE x \in heap : TRUE
             w == tm[e.pid].weight
         IN  (IF w > 0 THEN w ELSE NICE0_WEIGHT) + SumWeights(tm, heap \ {e})

\* the entries whose weights _dispatch_to_core sums: those in the heap once
\* the dispatched task has been popped
RunnableSet(S, t) == S.queues.CFS

\* base_slice of _dispatch_to_core for the popped CFS task t
CfsBaseSlice(S, t) ==
    LET own == IF t.weight # 0 THEN t.weight ELSE NICE0_WEIGHT
        sum == SumWeights(S.task_map, RunnableSet(S, t))
        runnable_set_weight == IF sum <= 0 THEN own ELSE sum
    IN  TruncDiv(sched_latency_ticks * own, runnable_set_weight)

\* exec_factor_map, doubled
ExecScale2(l) == CASE l = "Short" -> 2 [] l = "Medium" -> 3 [] l = "Long" -> 4 [] OTHER -> 3

\* a FIFO slice of a single tick
FifoOneTick(t) == 1

\* FIFO runs until completion: quantum = remaining
FifoQuantum(t) == Max(1, t.remaining)

\* a quantum taken as computed, without the floor of min_granularity
DispatchQuantumUnclamped(S, v, rrq, sched, t) ==
    CASE sched = "CFS" ->
           IF v = "AI"
           THEN TruncDiv(CfsBaseSlice(S, t) * ExecScale2(t.execution_class)
                           * (600 + t.score200), 2000)
           ELSE CfsBaseSlice(S, t)
      [] sched = "RR" -> IF v = "AI" THEN AIRRQuantum(t.score200) ELSE rrq
      [] OTHER -> t.remaining

\* a quantum that time-slices every class but CFS the way RR is sliced
DispatchQuantumTimeSliced(S, v, rrq, sched, t) ==
    IF sched = "CFS"
    THEN DispatchQuantumUnclamped(S, v, rrq, sched, t)
    ELSE IF v = "AI" THEN AIRRQuantum(t.score200) ELSE BaselineRRQuantum(rrq)

\* the quantum _dispatch_to_core gives task t of class sched.  The AI slice
\* int(base_slice * exec_scale * (1.0 + 0.2 * (score - 2.0))) is computed
\* here in integers; the float product equals it for the labels
\* Mixed/Other/Medium/Medium (the only ones a CFS task of Init has) at
\* every base_slice, and so it does for IO-bound/Batch/Low/Long (InitQuantum);
\* for all labels it does at base_slice 48 (the one a CFS task of InitAdmit
\* has).  For other labels and slices the float product
\* can fall just short of an integer value (CPU-bound/Background/Medium/
\* Medium, base_slice 240: 368, not 369).
DispatchQuantum(S, v, rrq, sched, t) ==
    CASE sched = "CFS" ->
           IF v = "AI"
           THEN Max(min_granularity,
                    TruncDiv(CfsBaseSlice(S, t) * ExecScale2(t.execution_class)
                               * (600 + t.score200), 2000))
           ELSE Max(min_granularity, CfsBaseSlice(S, t))
      [] sched = "FIFO" -> FifoQuantum(t)
      [] sched = "RR" -> IF v = "AI" THEN AIRRQuantum(t.score200) ELSE BaselineRRQuantum(rrq)
      [] OTHER -> Max(1, t.remaining)

\* a dispatch that is not counted
CountNothing(n) == n

\* self.context_switches += 1
CountSwitch(n) == n + 1

\* a first_start that every dispatch overwrites
FirstStartLatest(t, now) == now

\* first_start is set on the first dispatch only
FirstStart(t, now) == IF t.first_start = None THEN now ELSE t.first_start

\* _dispatch_to_core(core_id, sched, subq)
DispatchToCore(S, v, rrq, cid, sched) ==
    LET S1 == DequeueTask(S, sched)
        pid == DequeuedTask(S, sched)
    IN  IF pid = NoTask THEN S1
        ELSE LET q == DispatchQuantum(S1, v, rrq, sched, S1.task_map[pid])
                 S2 == [S1 EXCEPT
                          !.task_map[pid].quantum = q,
                          !.task_map[pid].first_start = FirstStart(S1.task_map[pid], S1.time),
                          !.cores[cid] = [task |-> pid, time_left |-> q],
                          !.context_switches = CountSwitch(@)]
             IN  Log(S2, "DISPATCH", pid, cid)

\* a vruntime that runs backwards
VruntimeRewind(v, t) == <<-1, 1>>

(* --------------------------- per-tick execution ------------------------ *)
\* the vruntime a CFS task gains per tick, after the weight clamp
VruntimeDelta(v, t) ==
    IF v = "AI"
    THEN Norm(NICE0_WEIGHT * 400, t.weight * Max(100, t.score200))
    ELSE Norm(NICE0_WEIGHT, t.weight)

\* an update that clamps a zero weight only
UpdateVruntimeZeroOnly(v, t) ==
    LET t1 == IF t.weight = 0 THEN [t EXCEPT !.weight = 1] ELSE t
    IN  [t1 EXCEPT !.vruntime = RatAdd(@, VruntimeDelta(v, t1))]

\* _update_vruntime(task, delta=1)
UpdateVruntime(v, t) ==
    LET t1 == IF t.weight <= 0 THEN [t EXCEPT !.weight = 1] ELSE t
    IN  [t1 EXCEPT !.vruntime = RatAdd(@, VruntimeDelta(v, t1))]

\* the tick a completion is stamped with
CompletionStamp(now) == now

\* a quantum expiry that requeues an RR task at the front
RequeueAtFront(S, pid, cid) ==
    IF S.task_map[pid].assigned_scheduler = "RR"
    THEN [Log(S, "PREEMPT", pid, cid) EXCEPT
            !.queues.RR = <<pid>> \o @,
            !.cores[cid] = [task |-> NoTask, time_left |-> 0]]
    ELSE [S EXCEPT !.cores[cid] = [task |-> NoTask, time_left |-> 0]]

\* a quantum expiry that requeues an RR task and leaves it on the core
RequeueKeepingCore(S, pid, cid) ==
    IF S.task_map[pid].assigned_scheduler = "RR"
    THEN [Log(S, "PREEMPT", pid, cid) EXCEPT !.queues.RR = Append(@, pid)]
    ELSE [S EXCEPT !.cores[cid] = [task |-> NoTask, time_left |-> 0]]

\* a quantum expiry that requeues the task without a PREEMPT record
RequeueUnlogged(S, pid, cid) ==
    LET sched == S.task_map[pid].assigned_scheduler
        clear == [task |-> NoTask, time_left |-> 0]
    IN  CASE sched = "RR" ->
               [S EXCEPT !.queues.RR = Append(@, pid), !.cores[cid] = clear]
          [] sched = "CFS" -> [CfsInsert(S, pid) EXCEPT !.cores[cid] = clear]
          [] sched = "FIFO" ->
               [S EXCEPT !.queues.FIFO = <<pid>> \o @, !.cores[cid] = clear]
          [] OTHER -> [S EXCEPT !.cores[cid] = clear]

\* what a quantum expiry does with the task, by class
Requeue(S, pid, cid) ==
    LET sched == S.task_map[pid].assigned_scheduler
        clear == [task |-> NoTask, time_left |-> 0]
    IN  CASE sched = "RR" ->
               [Log(S, "PREEMPT", pid, cid) EXCEPT
                  !.queues.RR = Append(@, pid), !.cores[cid] = clear]
          [] sched = "CFS" ->
               [CfsInsert(Log(S, "PREEMPT", pid, cid), pid) EXCEPT !.cores[cid] = clear]
          [] sched = "FIFO" ->
               [Log(S, "PREEMPT", pid, cid) EXCEPT
                  !.queues.FIFO = <<pid>> \o @, !.cores[cid] = clear]
          [] OTHER -> [S EXCEPT !.cores[cid] = clear]

\* a completion that leaves the task on its core
CompleteKeepingCore(S, pid, cid) ==
    LET S2 == [S EXCEPT
                 !.task_map[pid].completion_time = CompletionStamp(S.time),
                 !.completed_tasks = @ \cup {pid}]
    IN  Log(S2, "COMPLETE", pid, cid)

\* the completion branch of _run_one_tick_on_core
Complete(S, pid, cid) ==
    LET S2 == [S EXCEPT
                 !.task_map[pid].completion_time = CompletionStamp(S.time),
                 !.completed_tasks = @ \cup {pid}]
    IN  [Log(S2, "COMPLETE", pid, cid) EXCEPT
           !.cores[cid] = [task |-> NoTask, time_left |-> 0]]

\* a tick that tests the quantum before it tests completion
RunExpiryFirst(S, v, cid) ==
    LET pid == S.cores[cid].task
    IN  IF pid = NoTask THEN S
        ELSE
          LET t0 == S.task_map[pid]
              t1 == [t0 EXCEPT !.remaining = Max(0, @ - 1), !.total_run = @ + 1]
              t2 == IF t1.assigned_scheduler = "CFS" THEN UpdateVruntime(v, t1) ELSE t1
              S1 == Log([S EXCEPT !.task_map[pid] = t2,
                                  !.cores[cid].time_left = Max(0, @ - 1)],
                        "RUN", pid, cid)
          IN  IF S1.cores[cid].time_left <= 0
              THEN Requeue(S1, pid, cid)
              ELSE IF t2.remaining <= 0
                   THEN Complete(S1, pid, cid)
                   ELSE S1

\* _run_one_tick_on_core(core_id)
RunOneTickOnCore(S, v, cid) ==
    LET pid == S.cores[cid].task
    IN  IF pid = NoTask THEN S
        ELSE
          LET t0 == S.task_map[pid]
              t1 == [t0 EXCEPT !.remaining = Max(0, @ - 1), !.total_run = @ + 1]
              t2 == IF t1.assigned_scheduler = "CFS" THEN UpdateVruntime(v, t1) ELSE t1
              S1 == Log([S EXCEPT !.task_map[pid] = t2,
                                  !.cores[cid].time_left = Max(0, @ - 1)],
                        "RUN", pid, cid)
          IN  IF t2.remaining <= 0
              THEN Complete(S1, pid, cid)
              ELSE IF S1.cores[cid].time_left <= 0
                   THEN Requeue(S1, pid, cid)
                   ELSE S1

(* ------------------------- the simulation driver ---------------------- *)
\* the driver's initial state for an input table and a scheduler
DriverInit(v, n, rrq, table, cap) ==
    /\ variant = v
    /\ num_cores = n
    /\ rr_quantum = rrq
    /\ arrivals = table
    /\ last_arrival = table[Len(table)].Arrival_Sec
    /\ max_ticks = cap
    /\ current_time = 0
    /\ nadmitted = 0
    /\ pc = "admit"
    /\ cur = 0
    /\ time = NewScheduler(n).time
    /\ task_map = NewScheduler(n).task_map
    /\ queues = NewScheduler(n).queues
    /\ insertion_counter = NewScheduler(n).insertion_counter
    /\ cores = NewScheduler(n).cores
    /\ logs = NewScheduler(n).logs
    /\ completed_tasks = NewScheduler(n).completed_tasks
    /\ context_switches = NewScheduler(n).context_switches
    /\ lastpop = NewScheduler(n).lastpop
    /\ tick_start = [ready |-> 0, idle |-> {}, order |-> <<>>]
    /\ twin = NewScheduler(n)

config == <<variant, num_cores, rr_quantum, arrivals, last_arrival, max_ticks>>

\* a driver that admits a row one tick after its arrival tick
ArrivalPendingLate ==
    /\ nadmitted < Len(arrivals)
    /\ arrivals[nadmitted + 1].Arrival_Sec = current_time - 1

\* a row of the table arrives at the current tick
ArrivalPending ==
    /\ nadmitted < Len(arrivals)
    /\ arrivals[nadmitted + 1].Arrival_Sec = current_time

\* "for row in arrivals[current_time]: scheduler.admit(Task.from_row(row), current_time)"
AdmitArrival ==
    /\ pc = "admit"
    /\ ArrivalPending
    /\ SetSelf(AdmitTask(Self, variant, rr_quantum, arrivals[nadmitted + 1]))
    /\ twin' = TwinAdmitTask(twin, variant, rr_quantum, arrivals[nadmitted + 1])
    /\ nadmitted' = nadmitted + 1
    /\ UNCHANGED <<config, current_time, pc, cur, tick_start>>

\* scheduler.tick(current_time): self.time = int(current_time), loop at core 0
BeginTick ==
    /\ pc = "admit"
    /\ ~ArrivalPending
    /\ SetSelf([Self EXCEPT !.time = current_time])
    /\ twin' = [twin EXCEPT !.time = current_time]
    /\ pc' = "pick"
    /\ cur' = 0
    /\ tick_start' = [ready |-> ReadyCount(Self),
                      idle |-> {cid \in DOMAIN cores : cores[cid].task = NoTask},
                      order |-> RankOrder(Self)]
    /\ UNCHANGED <<config, current_time, nadmitted>>

\* "while heap:" of _cfs_pop_min never ends on the heap of S: every entry
\* belongs to a task whose live vruntime is NaN, so every popped entry fails
\* the validity test and is pushed again
PopDiverges(S) ==
    /\ S.queues.CFS # {}
    /\ \A e \in S.queues.CFS : IsNaN(S.task_map[e.pid].vruntime)

\* the core whose turn it is dispatches from CFS and the pop never returns:
\* tick() does not return, and the driver's loop makes no further step
TickHangs ==
    /\ cores[cur].task = NoTask
    /\ PickTaskForCore(Self) = "CFS"
    /\ PopDiverges(Self)

\* a core that dispatches whenever a task is waiting, idle or not
PickOnBusyCore(S, v, rrq, cid) ==
    IF PickTaskForCore(S) # "None"
    THEN DispatchToCore(S, v, rrq, cid, PickTaskForCore(S))
    ELSE S

\* tick(), loop body, first half: an idle core picks and dispatches
PickAndDispatch(S, v, rrq, cid) ==
    IF S.cores[cid].task = NoTask /\ PickTaskForCore(S) # "None"
    THEN DispatchToCore(S, v, rrq, cid, PickTaskForCore(S))
    ELSE S

PickStep ==
    /\ pc = "pick"
    /\ ~TickHangs
    /\ SetSelf(PickAndDispatch(Self, variant, rr_quantum, cur))
    /\ twin' = PickAndDispatch(twin, variant, rr_quantum, cur)
    /\ pc' = "run"
    /\ UNCHANGED <<config, current_time, nadmitted, cur, tick_start>>

\* tick(), loop body, second half: the core runs one tick; then the next core
RunStep ==
    /\ pc = "run"
    /\ SetSelf(RunOneTickOnCore(Self, variant, cur))
    /\ twin' = RunOneTickOnCore(twin, variant, cur)
    /\ IF cur + 1 < num_cores
       THEN pc' = "pick" /\ cur' = cur + 1
       ELSE pc' = "check" /\ cur' = 0
    /\ UNCHANGED <<config, current_time, nadmitted, tick_start>>

\* the driver's termination condition
Drained == current_time > last_arrival /\ AllQueuesEmpty(Self)

\* the rest of the driver's loop body, after tick() returned
DriverStep ==
    /\ pc = "check"
    /\ IF Drained
       THEN pc' = "done" /\ current_time' = current_time
       ELSE /\ current_time' = current_time + 1
            /\ pc' = IF current_time + 1 > max_ticks THEN "done" ELSE "admit"
    /\ UNCHANGED <<config, nadmitted, cur, time, task_map, queues,
                   insertion_counter, cores, logs, completed_tasks,
                   context_switches, lastpop, tick_start, twin>>

Next == AdmitArrival \/ BeginTick \/ PickStep \/ RunStep \/ DriverStep

(* ----------------------------- input tables --------------------------- *)
DefaultClf == Clf("Mixed", "Other", "Medium", "Medium")

\* work columns <<Total_Time_Ticks, sum_exec_halves>>: no work recorded,
\* Total_Time_Ticks 0, 1.5 from se.sum_exec_runtime, 2 and 3 ticks
WorkInputs == {<<None, 0>>, <<0, 0>>, <<None, 3>>, <<2, 0>>, <<3, 0>>}

\* se.load.weight: missing, the weight of nice 19
WeightInputs == {None, 15}
VruntimeInputs == {0, 1}

ClfInputs(v) ==
    IF v = "AI"
    THEN {DefaultClf,
          Clf("CPU-bound", "Real-time", "Short", "High"),
          Clf("CPU-bound", "Interactive", "Short", "High"),
          Clf("Mixed", PredictRaises, "Long", "Low")}
    ELSE {DefaultClf}

\* the rows (less PID and Arrival_Sec) the tables of Spec are made of: every
\* explicit real-time or idle policy with every work input; SCHED_OTHER with
\* every work input, initial vruntime and weight; and, for the AI variant,
\* SCHED_OTHER with every classifier outcome
RowInputs(v) ==
    {Row(0, 0, pol, wk[1], wk[2], 0, None, DefaultClf) :
        pol \in {"SCHED_FIFO", "SCHED_RR", "SCHED_IDLE"}, wk \in WorkInputs}
    \cup
    {Row(0, 0, "SCHED_OTHER", wk[1], wk[2], vr, w, DefaultClf) :
        wk \in WorkInputs, vr \in VruntimeInputs, w \in WeightInputs}
    \cup
    {Row(0, 0, "SCHED_OTHER", wk[1], wk[2], 0, None, c) :
        wk \in {<<None, 0>>, <<2, 0>>}, c \in ClfInputs(v)}
    \cup
    {Row(0, 0, "SCHED_BATCH", 2, 0, 0, None, c) : c \in ClfInputs(v)}

\* tables of n rows sorted by Arrival_Sec; PID is the row's position
TablesOf(n, rows) ==
    {[i \in 1..n |-> [f[i][1] EXCEPT !.PID = i, !.Arrival_Sec = f[i][2]]] :
        f \in {g \in [1..n -> rows \X (0..MaxArrival)] :
                  \A i \in 1..(n - 1) : g[i][2] <= g[i + 1][2]}}

Tables(v) == UNION {TablesOf(n, RowInputs(v)) : n \in 1..MaxTasks}

Init ==
    \E v \in {"BASE", "AI"}, n \in 1..MaxCores :
      \E rrq \in (IF v = "AI" THEN {100} ELSE {1, 2}), table \in Tables(v) :
        DriverInit(v, n, rrq, table, MaxTicks)

Spec == Init /\ [][Next]_vars

(* --------------------------- export_task_metrics ---------------------- *)
Waiting(t) == t.first_start - t.arrival_time
Turnaround(t) == t.completion_time - t.arrival_time

(* ------------------------ reading the state and log ------------------- *)
Admitted == DOMAIN task_map
LogIndex == 1..Len(logs)

SeqSlots(q, p) == Cardinality({i \in 1..Len(q) : q[i] = p})

\* the number of ready-queue entries that hold task p
QueueSlots(p) ==
    SeqSlots(queues.FIFO, p) + SeqSlots(queues.RR, p) + SeqSlots(queues.IDLE, p)
      + Cardinality({e \in queues.CFS : e.pid = p})

\* the number of cores whose running slot holds task p
CoreSlots(p) == Cardinality({cid \in DOMAIN cores : cores[cid].task = p})

CompletedSlots(p) == IF p \in completed_tasks THEN 1 ELSE 0

Events(ev) == {i \in LogIndex : logs[i].event = ev}

(* ================================ C1 ================================== *)
\* C1: after every tick every admitted task satisfies
\* remaining + total_run = total_time, whatever work values its row carried.
C1_WorkAccounting ==
    pc = "check" =>
      \A p \in Admitted :
        task_map[p].remaining + task_map[p].total_run = task_map[p].total_time

(* ================================ C2 ================================== *)
\* C2: at every instant each admitted task is in exactly one place: one entry
\* of one ready subqueue, the running slot of one core, or the completed set.
C2_ExactlyOnePlace ==
    \A p \in Admitted : QueueSlots(p) + CoreSlots(p) + CompletedSlots(p) = 1

\* a task that ran, was preempted and waits again, while another task is
\* running and none is lost
C2_Witness ==
    \E p, q \in Admitted :
      /\ p # q
      /\ QueueSlots(p) = 1 /\ task_map[p].total_run > 0
      /\ CoreSlots(q) = 1

(* ================================ C9 ================================== *)
\* C9: context_switches equals the number of DISPATCH records in the log.
C9_SwitchesAreDispatches == context_switches = Cardinality(Events("DISPATCH"))

\* a task was dispatched a second time after a preemption
C9_Witness ==
    /\ context_switches >= 3
    /\ Events("PREEMPT") # {}

(* ================================ C3 ================================== *)
IdleCores == {cid \in DOMAIN cores : cores[cid].task = NoTask}

\* the last core of the tick has had its turn to pick
PickingDone == pc = "run" /\ cur = num_cores - 1

\* C3 as stated: if some ready queue is non-empty and some core is idle at the
\* start of a tick, then once the tick's picking is done no core is idle
\* while a ready queue is non-empty.
C3_AsStated ==
    (PickingDone /\ tick_start.ready > 0 /\ tick_start.idle # {})
      => (IdleCores # {} => ReadyCount(Self) = 0)

\* C3, amended: tick() picks and runs core by core, so the guarantee is per
\* core: right after a core's own turn to pick, that core is idle only if
\* every ready queue is empty.
C3_WorkConservation ==
    pc = "run" => (cores[cur].task = NoTask => ReadyCount(Self) = 0)

\* the last core has picked a task while an earlier core, emptied by its own
\* run in this tick, stays idle with a task still ready
C3_Witness ==
    /\ PickingDone /\ tick_start.ready > 0 /\ tick_start.idle # {}
    /\ cores[cur].task # NoTask
    /\ IdleCores # {}
    /\ ReadyCount(Self) > 0

(* ================================ C4 ================================== *)
FifoDispatches ==
    {i \in Events("DISPATCH") : logs[i].assigned_scheduler = "FIFO"}

\* the RUN records of the task dispatched by record i, on that core, after i
\* and before index j
RunsBetween(i, j) ==
    {k \in (i + 1)..(j - 1) :
        /\ logs[k].event = "RUN"
        /\ logs[k].pid = logs[i].pid
        /\ logs[k].core = logs[i].core}

\* C4: once a FIFO task is dispatched on a core, the core runs it on every
\* following tick until total_run equals total_time, and no other task has a
\* DISPATCH or RUN record on that core in between.
C4_FifoProgress ==
    \A i \in FifoDispatches :
      LET total == task_map[logs[i].pid].total_time
          runs == RunsBetween(i, Len(logs) + 1)
      IN  /\ \A j \in (i + 1)..Len(logs) :
               ( /\ logs[j].core = logs[i].core
                 /\ logs[j].event \in {"DISPATCH", "RUN"}
                 /\ logs[j].pid # logs[i].pid )
                 => Cardinality(RunsBetween(i, j)) >= total
          /\ \A k \in runs :
               Cardinality(RunsBetween(i, k)) < total
                 => logs[k].time = logs[i].time + Cardinality(RunsBetween(i, k))
          /\ (pc = "check" /\ current_time - logs[i].time + 1 <= total)
               => Cardinality(runs) >= current_time - logs[i].time + 1

\* a FIFO task of three ticks has run to its end and its core then
\* dispatched another task
C4_Witness ==
    \E i \in FifoDispatches : \E j \in Events("DISPATCH") :
      /\ j > i
      /\ logs[j].core = logs[i].core
      /\ logs[j].pid # logs[i].pid
      /\ task_map[logs[i].pid].total_time = 3
      /\ task_map[logs[i].pid].total_run = 3

(* ================================ C5 ================================== *)
\* C5: for every completed task,
\* completion_time >= first_start + total_time - 1.
C5_CompletionBound ==
    \A p \in completed_tasks :
      task_map[p].completion_time
        >= task_map[p].first_start + task_map[p].total_time - 1

(* ================================ C6 ================================== *)
\* C6: for every completed task the exported turnaround is at least
\* total_time (a lone SCHED_FIFO task of 10 ticks arriving at tick 0 has
\* turnaround 10).
C6_TurnaroundBound ==
    \A p \in completed_tasks : Turnaround(task_map[p]) >= task_map[p].total_time

(* ============================= scenarios ============================== *)
\* Baseline, one core, default rr_quantum, two SCHED_RR tasks of 250 ticks
\* arriving at tick 0, run by the driver under its own safety cap.
RRTable ==
    << Row(1, 0, "SCHED_RR", 250, 0, 0, None, DefaultClf),
       Row(2, 0, "SCHED_RR", 250, 0, 0, None, DefaultClf) >>

InitRR == DriverInit("BASE", 1, DefaultRRQuantum, RRTable, MaxTicksCap)
SpecRR == InitRR /\ [][Next]_vars

\* Baseline, one core, two SCHED_OTHER tasks of weight 1024 arriving at
\* tick 0, with 60 or 100 ticks of work each.
CfsTable(work) ==
    << Row(1, 0, "SCHED_OTHER", work, 0, 0, NICE0_WEIGHT, DefaultClf),
       Row(2, 0, "SCHED_OTHER", work, 0, 0, NICE0_WEIGHT, DefaultClf) >>

InitCfs ==
    \E work \in {60, 100} :
      DriverInit("BASE", 1, DefaultRRQuantum, CfsTable(work), MaxTicksCap)

SpecCfs == InitCfs /\ [][Next]_vars

\* the DISPATCH records of the log, in order
DispatchSeq == SelectSeq(logs, LAMBDA r : r.event = "DISPATCH")

(* ================================ C7 ================================== *)
\* the dispatches so far alternate between pid 1 and pid 2, pid 1 first
Alternating ==
    \A k \in 1..Len(DispatchSeq) :
      DispatchSeq[k].pid = (IF k % 2 = 1 THEN 1 ELSE 2)

BothCompletedBy500 ==
    /\ completed_tasks = {1, 2}
    /\ \A p \in {1, 2} : task_map[p].completion_time <= 500

\* C7 as stated: in the two-task RR scenario the tasks are dispatched
\* alternately starting with pid 1, both are completed by tick 500, and
\* context_switches is exactly 5 when the run ends.
C7_AsStated ==
    /\ Alternating
    /\ pc = "done" => (BothCompletedBy500 /\ context_switches = 5)

\* C7, amended: the same with context_switches exactly 6 when the run ends
\* (dispatches at ticks 0, 100, 200, 300, 400 and 450).
C7_RoundRobinScenario ==
    /\ Alternating
    /\ pc = "done" =>
         /\ BothCompletedBy500
         /\ context_switches = 6
         /\ [k \in 1..Len(DispatchSeq) |-> DispatchSeq[k].time]
              = <<0, 100, 200, 300, 400, 450>>

\* the run has ended with both tasks completed
C7_Witness ==
    /\ pc = "done"
    /\ completed_tasks = {1, 2}
    /\ Len(DispatchSeq) > 2

(* ================================ C8 ================================== *)
\* C8: with one core and two weight-1024 CFS tasks arriving at tick 0, the
\* quantum logged at the first DISPATCH is 24 = floor(48 * 1024 / 2048), the
\* sum of weights including the task being dispatched.
C8_FirstSliceIs24 ==
    Len(DispatchSeq) >= 1 => DispatchSeq[1].quantum = 24

(* ======================= _cfs_pop_min, step by step ==================== *)
(* The while loop of _cfs_pop_min taken one iteration at a time, started   *)
(* on (a) any heap of at most MaxHeap entries over one or two CFS tasks,   *)
(* stale entries and several entries per task included, and (b) the heap   *)
(* admit() builds for one SCHED_OTHER row, whose se.vruntime cell may be   *)
(* empty.  tick_start.ready holds the size of the heap the call began on.  *)

\* live and snapshot vruntimes: 0, 1 and 5e-7 (within the tolerance of 0)
PopVruntimes == {RatInt(0), RatInt(1), <<1, 2000000>>}

PopTask(pid, live) ==
    [BaselineAdmitTask(TaskInit(Row(pid, 0, "SCHED_OTHER", 2, 0, 0, None, DefaultClf)),
                       DefaultRRQuantum)
       EXCEPT !.vruntime = live]

\* a scheduler holding n CFS tasks and a heap of k entries
PopScheduler(n, live, k, ent) ==
    [NewScheduler(1) EXCEPT
       !.task_map = [p \in 1..n |-> PopTask(p, live[p])],
       !.queues.CFS = {[vr |-> ent[i][1], seq |-> i, pid |-> ent[i][2]] : i \in 0..(k - 1)},
       !.insertion_counter = k]

\* the scheduler after admit() of one SCHED_OTHER row
PopAdmitted(v, vr) ==
    AdmitTask(NewScheduler(1), v, DefaultRRQuantum,
              Row(1, 0, "SCHED_OTHER", 2, 0, vr, None, DefaultClf))

PopStart(S, v) ==
    /\ variant = v
    /\ num_cores = 1
    /\ rr_quantum = DefaultRRQuantum
    /\ arrivals = <<>>
    /\ last_arrival = 0
    /\ max_ticks = MaxTicksCap
    /\ current_time = 0
    /\ nadmitted = 0
    /\ pc = "pop"
    /\ cur = 0
    /\ time = S.time
    /\ task_map = S.task_map
    /\ queues = S.queues
    /\ insertion_counter = S.insertion_counter
    /\ cores = S.cores
    /\ logs = S.logs
    /\ completed_tasks = S.completed_tasks
    /\ context_switches = S.context_switches
    /\ lastpop = NoPop
    /\ tick_start = [ready |-> Cardinality(S.queues.CFS), idle |-> {}, order |-> <<>>]
    /\ twin = NewScheduler(1)

InitPop ==
    \E v \in {"BASE", "AI"} :
      \/ \E n \in 1..MaxTasks, k \in 0..MaxHeap :
           \E live \in [1..n -> PopVruntimes],
              ent \in [0..(k - 1) -> PopVruntimes \X (1..n)] :
             PopStart(PopScheduler(n, live, k, ent), v)
      \/ \E vr \in VruntimeInputs \cup {NotANumber} :
           PopStart(PopAdmitted(v, vr), v)

\* one iteration of "while heap:"
PopIterStep ==
    /\ pc = "pop"
    /\ queues.CFS # {}
    /\ lastpop.iters < MaxPopIters
    /\ SetSelf(CfsPopIter(Self))
    /\ pc' = IF CfsPopIter(Self).lastpop.ret # NoTask THEN "popped" ELSE "pop"
    /\ UNCHANGED <<config, current_time, nadmitted, cur, tick_start, twin>>

\* the loop condition fails: return None
PopEmptyStep ==
    /\ pc = "pop"
    /\ queues.CFS = {}
    /\ SetSelf([Self EXCEPT !.lastpop.ret = NoTask])
    /\ pc' = "popped"
    /\ UNCHANGED <<config, current_time, nadmitted, cur, tick_start, twin>>

NextPop == PopIterStep \/ PopEmptyStep
SpecPop == InitPop /\ [][NextPop]_vars

(* ================================ C10 ================================= *)
\* a returned task was popped from an entry whose snapshot is within 1e-6
\* of the task's live vruntime
PopReturnedMatches ==
    (pc = "popped" /\ lastpop.ret # NoTask)
      => /\ lastpop.live = task_map[lastpop.ret].vruntime
         /\ RatClose(lastpop.live, lastpop.snap)

\* an entry that was popped and not returned was stale, and a fresh entry
\* for its task is in the heap
PopStaleReplaced ==
    (pc = "pop" /\ lastpop.iters > 0)
      => /\ ~RatClose(lastpop.live, lastpop.snap)
         /\ \E e \in queues.CFS :
              /\ e.pid = lastpop.pid
              /\ e.seq = insertion_counter - 1
              /\ e.vr = task_map[lastpop.pid].vruntime

\* the loop is over after at most one iteration per entry of the heap it
\* began on, plus one
PopTerminates == lastpop.iters <= tick_start.ready + 1

\* C10: every task _cfs_pop_min returns was popped from an entry whose
\* snapshot equals its live vruntime within 1e-6; a stale entry is never
\* returned but replaced by a fresh entry; and the pop loop terminates on
\* every reachable heap.
C10_PopMin == PopReturnedMatches /\ PopStaleReplaced /\ PopTerminates

(* ================================ C11 ================================= *)
\* C11: determinism: a second run given the same arrival table, the same
\* classifier outputs and the same core count (twin, whose Task objects draw
\* other uids) has the same event log, record for record and in the same
\* order.
C11_Determinism == twin.logs = logs

\* both runs have preempted and re-dispatched a task, whose Task objects
\* differ in their uid
C11_Witness ==
    /\ Events("PREEMPT") # {}
    /\ Len(twin.logs) >= 8
    /\ \E p \in Admitted : twin.task_map[p].uid # task_map[p].uid

(* ================================ C12 ================================= *)
\* the DISPATCH records of CFS tasks
CfsDispatches ==
    {i \in Events("DISPATCH") : logs[i].assigned_scheduler = "CFS"}

RatLeq(a, b) == ~RatLess(b, a)

\* a CFS task is admitted between log records i and j
CfsAdmittedBetween(i, j) ==
    \E k \in (i + 1)..(j - 1) :
      logs[k].event = "ADMIT" /\ logs[k].assigned_scheduler = "CFS"

\* C12 as stated: over a whole run, with arrivals at arbitrary ticks and
\* arbitrary initial se.vruntime values, the vruntime a task has when it is
\* dispatched from cfs_1 is non-decreasing along the DISPATCH events.
C12_AsStated ==
    \A i, j \in CfsDispatches :
      i < j => RatLeq(logs[i].vruntime, logs[j].vruntime)

\* C12, amended: on one core, the vruntime at dispatch is non-decreasing
\* along the DISPATCH events of cfs_1 between which no task is admitted to
\* cfs_1.
C12_FairnessMonotone ==
    num_cores = 1 =>
      \A i, j \in CfsDispatches :
        (i < j /\ ~CfsAdmittedBetween(i, j))
          => RatLeq(logs[i].vruntime, logs[j].vruntime)

\* one core: a CFS task was preempted and a later dispatch from cfs_1,
\* with no admission in between, had a strictly larger vruntime
C12_Witness ==
    /\ num_cores = 1
    /\ \E i, j \in CfsDispatches :
         /\ i < j /\ ~CfsAdmittedBetween(i, j)
         /\ \E k \in (i + 1)..(j - 1) : logs[k].event = "PREEMPT"
         /\ RatLess(logs[i].vruntime, logs[j].vruntime)

(* ================================ C13 ================================= *)
\* the core at its turn is idle and its pick returns class sched
Dispatching(sched) ==
    pc = "pick" /\ cores[cur].task = NoTask /\ PickTaskForCore(Self) = sched

\* entry e of task p comes before entry f by (live vruntime, seq, pid)
ServedBefore(e, f) ==
    LET ve == task_map[e.pid].vruntime
        vf == task_map[f.pid].vruntime
    IN  \/ RatLess(ve, vf)
        \/ (ve = vf /\ e.seq < f.seq)
        \/ (ve = vf /\ e.seq = f.seq /\ e.pid < f.pid)

\* C13: whenever a core dispatches from the CFS subqueue, the task it
\* dispatches has the smallest live vruntime of all tasks waiting there at
\* that moment, ties broken by the smaller insertion sequence number and
\* then the smaller pid.
C13_CfsServesMinimum ==
    [][Dispatching("CFS") =>
         \E e \in queues.CFS :
           /\ cores'[cur].task = e.pid
           /\ e \notin queues'.CFS
           /\ \A f \in queues.CFS \ {e} : ServedBefore(e, f)]_vars

\* a CFS task has just been dispatched while a task of equal vruntime,
\* inserted later, stays in the heap
C13_Witness ==
    /\ pc = "run"
    /\ lastpop.ret # NoTask
    /\ cores[cur].task = lastpop.ret
    /\ task_map[lastpop.ret].total_run = 0
    /\ \E f \in queues.CFS : f.vr = lastpop.snap

(* ================================ C14 ================================= *)
\* the records of the appends to the subqueue of class sched, in order: an
\* ENQUEUE at admission, a PREEMPT when an expired RR task is requeued
Appends(sched) ==
    SelectSeq(logs, LAMBDA r : /\ r.assigned_scheduler = sched
                               /\ r.event \in {"ENQUEUE", "PREEMPT"})

\* the DISPATCH records of class sched, in order
Departures(sched) ==
    SelectSeq(logs, LAMBDA r : r.assigned_scheduler = sched /\ r.event = "DISPATCH")

\* C14: tasks leave a FIFO or RR subqueue in exactly the order they were
\* appended to it (by admission, or for RR by requeue at the back after a
\* quantum expiry).
C14_FirstInFirstOut ==
    \A sched \in {"FIFO", "RR"} :
      /\ Len(Departures(sched)) <= Len(Appends(sched))
      /\ \A k \in 1..Len(Departures(sched)) :
           Departures(sched)[k].pid = Appends(sched)[k].pid

\* two RR tasks have been served in turn, one of them after its requeue
C14_Witness ==
    /\ Len(Departures("RR")) >= 3
    /\ Departures("RR")[1].pid # Departures("RR")[2].pid
    /\ \E k \in 1..Len(Departures("RR")) : Appends("RR")[k].event = "PREEMPT"

(* ================================ C15 ================================= *)
Classes == {PriorityOrder[i] : i \in 1..Len(PriorityOrder)}

\* the classes ahead of class sched in the default priority order
Ahead(sched) ==
    {PriorityOrder[j] : j \in {i \in 1..Len(PriorityOrder) :
                                 \E k \in (i + 1)..Len(PriorityOrder) :
                                   PriorityOrder[k] = sched}}

\* C15: a core that dispatches a task of class X does so only when every
\* subqueue of every class ahead of X in the order FIFO, RR, CFS, IDLE is
\* empty; picking removes no task and changes no queue, so a core's turn to
\* pick takes exactly the dispatched task out of the queues, or nothing.
C15_PriorityOrder ==
    [][pc = "pick" =>
         IF cores'[cur].task # cores[cur].task
         THEN LET X == task_map[cores'[cur].task].assigned_scheduler
              IN  /\ cores[cur].task = NoTask
                  /\ X = PickTaskForCore(Self)
                  /\ \A Y \in Ahead(X) : QueueLen(Self, Y) = 0
                  /\ \A Y \in Classes \ {X} : queues'[Y] = queues[Y]
                  /\ QueueLen(Self, X) = 1 + (IF X = "CFS"
                                              THEN Cardinality(queues'.CFS)
                                              ELSE Len(queues'[X]))
         ELSE queues' = queues]_vars

\* a core has just dispatched an RR task while tasks of the classes behind
\* RR are waiting
C15_Witness ==
    /\ pc = "run"
    /\ cores[cur].task # NoTask
    /\ task_map[cores[cur].task].assigned_scheduler = "RR"
    /\ task_map[cores[cur].task].total_run = 0
    /\ queues.FIFO = <<>>
    /\ (queues.CFS # {} \/ queues.IDLE # <<>>)

(* ================================ C16 ================================= *)
\* the records of the tick in progress that carry a core
TickRecords == {i \in LogIndex : logs[i].time = time /\ logs[i].core # None}

\* the rank, among the cores idle when the tick began, of core cid
IdleRank(cid) == Cardinality({c \in tick_start.idle : c <= cid})

\* the task dispatched on core cid in the tick in progress (NoTask: none)
DispatchedOn(cid) ==
    LET ds == {i \in TickRecords : logs[i].event = "DISPATCH" /\ logs[i].core = cid}
    IN  IF ds = {} THEN NoTask ELSE logs[CHOOSE i \in ds : TRUE].pid

\* within a tick the records of a core precede those of every higher core
CoreRecordsInOrder ==
    \A i, j \in TickRecords : i < j => logs[i].core <= logs[j].core

\* at the end of a tick that began with several idle cores, the k-th idle
\* core has dispatched the task the queue order ranked k-th
IdleCoresServedByRank ==
    (pc = "check" /\ Cardinality(tick_start.idle) >= 2)
      => \A cid \in tick_start.idle :
           IdleRank(cid) <= Len(tick_start.order)
             => DispatchedOn(cid) = tick_start.order[IdleRank(cid)]

\* C16: within a tick cores are served in ascending id order: when several
\* cores are idle at the start of a tick, the task the queue order ranks
\* first goes to the lowest-id idle core, the next one to the next idle
\* core, and all log records of core i in a tick precede all log records of
\* core j > i in that tick.
C16_CoresInIdOrder == CoreRecordsInOrder /\ IdleCoresServedByRank

\* some task has two RUN records with the same time
RanTwiceInATick ==
    \E i, j \in Events("RUN") :
      i < j /\ logs[i].pid = logs[j].pid /\ logs[i].time = logs[j].time

(* ================================ C17 ================================= *)
\* while a tick is in progress, every row whose arrival tick is at most the
\* tick's has been admitted, and an admitted task was enqueued
ArrivalsAdmitted ==
    pc \in {"pick", "run", "check"} =>
      \A k \in 1..Len(arrivals) :
        arrivals[k].Arrival_Sec <= time
          => /\ arrivals[k].PID \in Admitted
             /\ task_map[arrivals[k].PID].arrival_time = arrivals[k].Arrival_Sec
             /\ \E i \in Events("ENQUEUE") : logs[i].pid = arrivals[k].PID

\* a core that is idle at its turn, when the task ranked first is one that
\* arrived at this tick, dispatches it, with first_start the tick itself
NewArrivalDispatched ==
    (/\ pc = "pick"
     /\ cores[cur].task = NoTask
     /\ RankOrder(Self) # <<>>
     /\ task_map[Head(RankOrder(Self))].arrival_time = time)
      => /\ cores'[cur].task = Head(RankOrder(Self))
         /\ task_map'[Head(RankOrder(Self))].first_start = time

\* C17: a task whose arrival tick is t is admitted and enqueued before the
\* picking of tick t, so if a core is idle when its turn comes in tick t and
\* no task ranks ahead of the new one, the task is dispatched in tick t
\* itself (first_start = t), not in tick t + 1.
C17_ArrivalsVisible == []ArrivalsAdmitted /\ [][NewArrivalDispatched]_vars

\* a task that arrived at tick 1 has just been dispatched in tick 1
C17_Witness ==
    /\ pc = "run"
    /\ time = 1
    /\ cores[cur].task # NoTask
    /\ task_map[cores[cur].task].arrival_time = 1
    /\ task_map[cores[cur].task].first_start = 1

(* ========================== AI admission ============================== *)
(* The AI variant run on a table of one row, for every Scheduling_Policy   *)
(* (the five names, and "" for a missing one) and every outcome of the     *)
(* classifier in the four categories.                                      *)
PolicyInputs == Policies \cup {""}

Outcomes(labels) == labels \cup {PredictRaises, DecodeRaises}

InitAdmit ==
    \E pol \in PolicyInputs,
       r \in Outcomes(ResourceLabels), i \in Outcomes(InteractivityLabels),
       p \in Outcomes(PriorityLabels), e \in Outcomes(ExecutionLabels) :
      DriverInit("AI", 1, DefaultRRQuantum,
                 <<Row(1, 0, pol, 2, 0, 0, None, Clf(r, i, p, e))>>, MaxTicksCap)

SpecAdmit == InitAdmit /\ [][Next]_vars

PolicyOf(p) == task_map[p].features.Scheduling_Policy

\* the policy is none of SCHED_FIFO, SCHED_RR, SCHED_IDLE
NoExplicitClass(p) == PolicyOf(p) \notin {"SCHED_FIFO", "SCHED_RR", "SCHED_IDLE"}

\* (Interactive and Short and High) or subqueue_score > 2.6
InteractiveRule(t) ==
    \/ (t.interactivity = "Interactive" /\ t.execution_class = "Short"
          /\ t.priority_class = "High")
    \/ t.score200 > 520

(* ================================ C18 ================================= *)
\* the class the ordered rule list gives task p
RuleClass(p) ==
    CASE PolicyOf(p) = "SCHED_FIFO" -> "FIFO"
      [] PolicyOf(p) = "SCHED_RR" -> "RR"
      [] PolicyOf(p) = "SCHED_IDLE" -> "IDLE"
      [] OTHER -> IF task_map[p].interactivity = "Real-time" THEN "FIFO"
                  ELSE IF InteractiveRule(task_map[p]) THEN "RR"
                  ELSE "CFS"

RuleSubqueue(sched) ==
    CASE sched = "FIFO" -> "fifo_1" [] sched = "RR" -> "rr_1"
      [] sched = "IDLE" -> "idle" [] sched = "CFS" -> "cfs_1"

\* C18: AI admission assigns the class by the first matching rule of the
\* ordered list: SCHED_FIFO gives FIFO/fifo_1, SCHED_RR gives RR/rr_1,
\* SCHED_IDLE gives IDLE/idle, otherwise Real-time gives FIFO/fifo_1,
\* otherwise (Interactive and Short and High) or subqueue_score > 2.6 gives
\* RR/rr_1, otherwise CFS/cfs_1; an explicit policy wins over the labels.
C18_AssignmentRules ==
    \A p \in Admitted :
      /\ task_map[p].assigned_scheduler = RuleClass(p)
      /\ task_map[p].subqueue = RuleSubqueue(RuleClass(p))

\* a SCHED_RR task whose labels alone would have sent it to FIFO is in RR
C18_Witness ==
    \E p \in Admitted :
      /\ PolicyOf(p) = "SCHED_RR"
      /\ task_map[p].interactivity = "Real-time"
      /\ task_map[p].assigned_scheduler = "RR"

(* ================================ C19 ================================= *)
\* C19: in the AI variant a task whose interactivity label is Real-time and
\* whose Scheduling_Policy is SCHED_OTHER (or absent) is assigned to FIFO,
\* whatever its resource, execution and priority labels are.
C19_RealTimeOverride ==
    \A p \in Admitted :
      (PolicyOf(p) \in {"SCHED_OTHER", ""} /\ task_map[p].interactivity = "Real-time")
        => task_map[p].assigned_scheduler = "FIFO"

\* a Real-time SCHED_OTHER task of the lowest score is in FIFO
C19_Witness ==
    \E p \in Admitted :
      /\ PolicyOf(p) = "SCHED_OTHER"
      /\ task_map[p].interactivity = "Real-time"
      /\ task_map[p].resource_type = "IO-bound"
      /\ task_map[p].execution_class = "Long"
      /\ task_map[p].priority_class = "Low"
      /\ task_map[p].assigned_scheduler = "FIFO"

(* ================================ C20 ================================= *)
\* C20 as stated: in the AI variant a task with no explicit real-time/idle
\* Scheduling_Policy whose interactivity label is Interactive is assigned to
\* RR, whatever its resource, execution and priority labels are.
C20_AsStated ==
    \A p \in Admitted :
      (NoExplicitClass(p) /\ task_map[p].interactivity = "Interactive")
        => task_map[p].assigned_scheduler = "RR"

(* ================================ C21 ================================= *)
\* C21: in the AI variant a task with no explicit real-time/idle
\* Scheduling_Policy whose interactivity label is Batch is assigned to
\* CFS/cfs_1 for every combination of resource, execution and priority
\* labels; its subqueue_score never exceeds the 2.6 threshold of RR.
C21_BatchToCfs ==
    \A p \in Admitted :
      (NoExplicitClass(p) /\ task_map[p].interactivity = "Batch")
        => /\ task_map[p].assigned_scheduler = "CFS"
           /\ task_map[p].subqueue = "cfs_1"
           /\ task_map[p].score200 <= 520

\* the Batch task of the highest score (2.45) is in CFS
C21_Witness ==
    \E p \in Admitted :
      /\ PolicyOf(p) = "SCHED_OTHER"
      /\ task_map[p].interactivity = "Batch"
      /\ task_map[p].resource_type = "CPU-bound"
      /\ task_map[p].execution_class = "Short"
      /\ task_map[p].priority_class = "High"
      /\ task_map[p].score200 = 490
      /\ task_map[p].assigned_scheduler = "CFS"

(* ================================ C22 ================================= *)
\* C22: a task whose Scheduling_Policy is SCHED_BATCH is assigned to
\* CFS/cfs_1, whatever labels the classifier gives it.
C22_BatchPolicyToCfs ==
    \A p \in Admitted :
      PolicyOf(p) = "SCHED_BATCH"
        => /\ task_map[p].assigned_scheduler = "CFS"
           /\ task_map[p].subqueue = "cfs_1"

(* ================================ C23 ================================= *)
\* some predictor or decoder raises for task t
ClassifierFails(t) ==
    \/ Raises(t.features.clf.resource) \/ Raises(t.features.clf.interactivity)
    \/ Raises(t.features.clf.priority) \/ Raises(t.features.clf.execution)

\* the tasks registered by this step
NewlyAdmitted == (DOMAIN task_map') \ (DOMAIN task_map)

\* the four labels of t are valid, a failed category holding its default
LabelsSet(t) ==
    /\ t.resource_type \in ResourceLabels
    /\ t.interactivity \in InteractivityLabels
    /\ t.priority_class \in PriorityLabels
    /\ t.execution_class \in ExecutionLabels
    /\ Raises(t.features.clf.resource) => t.resource_type = "Mixed"
    /\ Raises(t.features.clf.interactivity) => t.interactivity = "Other"
    /\ Raises(t.features.clf.priority) => t.priority_class = "Medium"
    /\ Raises(t.features.clf.execution) => t.execution_class = "Medium"

AdmissionCompletes ==
    \A p \in NewlyAdmitted :
      ClassifierFails(task_map'[p])
        => /\ LabelsSet(task_map'[p])
           /\ task_map'[p].assigned_scheduler \in Classes
           /\ task_map'[p].subqueue = RuleSubqueue(task_map'[p].assigned_scheduler)
           /\ QueueSlots(p)' = 1
           /\ CoreSlots(p)' = 0
           /\ \E i \in Events("ENQUEUE")' : logs'[i].pid = p

\* C23: a classifier failure never aborts admission: whichever predictor or
\* decoder raises, admit finishes with all four labels valid (a failed
\* category holding its default Mixed / Other / Medium / Medium), the task
\* registered, a class assigned and the task in exactly one ready subqueue.
C23_FailureAbsorbed == [][AdmissionCompletes]_vars

\* a task whose interactivity decoder and priority predictor raised is
\* admitted and waits in one subqueue
C23_Witness ==
    \E p \in Admitted :
      /\ task_map[p].features.clf.interactivity = DecodeRaises
      /\ task_map[p].features.clf.priority = PredictRaises
      /\ task_map[p].interactivity = "Other"
      /\ task_map[p].priority_class = "Medium"
      /\ QueueSlots(p) = 1
      /\ task_map[p].total_run = 0

(* ================================ C24 ================================= *)
\* C24: classifier failures are isolated per category: when the predictor
\* of one category raises, only that category's label falls back to its
\* default, and each of the other three categories still gets the label its
\* own predictor and decoder produce.
C24_FailuresIsolated ==
    \A p \in Admitted :
      LET t == task_map[p]
          c == t.features.clf
      IN  /\ ~Raises(c.resource) => t.resource_type = c.resource
          /\ ~Raises(c.interactivity) => t.interactivity = c.interactivity
          /\ ~Raises(c.priority) => t.priority_class = c.priority
          /\ ~Raises(c.execution) => t.execution_class = c.execution

(* ============================ quanta ================================== *)
(* Both variants on tables whose CFS rows carry a missing, zero, negative  *)
(* or small se.load.weight, whose other rows have no work or two ticks of  *)
(* work, and, for the baseline, with an rr_quantum that is negative, zero  *)
(* or positive.                                                            *)
QuantumWeights == {None, 0, -5, 15}

QuantumClfs(v) ==
    IF v = "AI"
    THEN {DefaultClf, Clf("IO-bound", "Batch", "Low", "Long")}
    ELSE {DefaultClf}

QuantumRows(v) ==
    {Row(0, 0, pol, wk[1], wk[2], 0, None, DefaultClf) :
        pol \in {"SCHED_FIFO", "SCHED_RR", "SCHED_IDLE"}, wk \in {<<0, 0>>, <<2, 0>>}}
    \cup
    {Row(0, 0, "SCHED_OTHER", 2, 0, 0, w, c) : w \in QuantumWeights, c \in QuantumClfs(v)}
    \cup
    (IF v = "AI"
     THEN {Row(0, 0, "SCHED_OTHER", 2, 0, 0, None, Clf("CPU-bound", "Interactive", "High", "Short")),
           Row(0, 0, "SCHED_OTHER", 2, 0, 0, None, Clf("CPU-bound", "Other", "High", "Medium"))}
     ELSE {})

InitQuantum ==
    \E v \in {"BASE", "AI"}, n \in 1..MaxCores :
      \E rrq \in (IF v = "AI" THEN {DefaultRRQuantum} ELSE {-1, 0, 2}),
         table \in UNION {TablesOf(k, QuantumRows(v)) : k \in 1..MaxTasks} :
        DriverInit(v, n, rrq, table, MaxTicks)

SpecQuantum == InitQuantum /\ [][Next]_vars

(* ================================ C25 ================================= *)
\* this step dispatches a task to the core whose turn it is
DispatchHappens ==
    pc = "pick" /\ cores[cur].task = NoTask /\ cores'[cur].task # NoTask

DispatchSetsQuantum ==
    DispatchHappens =>
      LET pid == cores'[cur].task
      IN  /\ task_map'[pid].quantum \in Nat
          /\ task_map'[pid].quantum >= min_granularity
          /\ cores'[cur].time_left = task_map'[pid].quantum
          /\ logs'[Len(logs')].event = "DISPATCH"
          /\ logs'[Len(logs')].quantum = task_map'[pid].quantum

\* C25: every DISPATCH, in both variants and for every class, sets the
\* task's quantum and the core's time_left to an integer >= min_granularity
\* (1), whatever the weights (zero and negative included), the size of the
\* runnable set, the remaining work and the subqueue_score are.
C25_QuantumFloor == [][DispatchSetsQuantum]_vars

\* a CFS task of negative weight was dispatched while another CFS task was
\* waiting, and got the floor of one tick
C25_Witness ==
    \E cid \in DOMAIN cores :
      /\ cores[cid].task # NoTask
      /\ task_map[cores[cid].task].assigned_scheduler = "CFS"
      /\ task_map[cores[cid].task].weight < 0
      /\ task_map[cores[cid].task].quantum = min_granularity
      /\ queues.CFS # {}

(* ============================ safety cap ============================== *)
(* Both variants on tables of rows with two or three ticks of work, under  *)
(* a max_ticks between 0 and MaxCap, which the run can reach.              *)
CapRows ==
    {Row(0, 0, pol, work, 0, 0, None, DefaultClf) :
        pol \in {"SCHED_FIFO", "SCHED_RR", "SCHED_OTHER", "SCHED_IDLE"}, work \in {2, 3}}

InitCap ==
    \E v \in {"BASE", "AI"}, n \in 1..MaxCores, cap \in 0..MaxCap :
      \E table \in UNION {TablesOf(k, CapRows) : k \in 1..MaxTasks} :
        DriverInit(v, n, DefaultRRQuantum, table, cap)

SpecCap == InitCap /\ [][Next]_vars

\* the number of calls of scheduler.tick so far: tick(current_time) sets
\* self.time, and the first call is made with current_time 0
TicksRun == IF pc = "admit" /\ current_time = 0 THEN 0 ELSE time + 1

(* ================================ C26 ================================= *)
\* C26: the safety cap bounds the run: whatever the queue state, the loop
\* executes at most max_ticks ticks (tick is called at most max_ticks
\* times) and then stops.
C26_CapBoundsTicks == TicksRun <= max_ticks

(* ============================ drain and stop ========================== *)
(* Both variants under the driver's own cap, on tables of rows with one or *)
(* two ticks of work; a SCHED_OTHER row may have an empty se.vruntime cell *)
(* when it is the only CFS row of its table.  The loop is executed         *)
(* fairly: a step that can be taken is taken.                              *)
DrainRows ==
    {Row(0, 0, pol, work, 0, 0, None, DefaultClf) :
        pol \in {"SCHED_FIFO", "SCHED_RR", "SCHED_OTHER", "SCHED_IDLE"}, work \in {1, 2}}
    \cup {Row(0, 0, "SCHED_OTHER", 2, 0, NotANumber, None, DefaultClf)}

DrainTables ==
    {table \in UNION {TablesOf(k, DrainRows) : k \in 1..MaxTasks} :
       \A i, j \in 1..Len(table) :
         (i # j /\ table[i].se_vruntime = NotANumber)
           => table[j].Scheduling_Policy # "SCHED_OTHER"}

InitDrain ==
    \E v \in {"BASE", "AI"}, n \in 1..MaxCores, table \in DrainTables :
      DriverInit(v, n, DefaultRRQuantum, table, MaxTicksCap)

\* the loop can take its next step: it has not stopped and is not inside a
\* tick() that never returns
LoopCanStep == pc \in {"admit", "run", "check"} \/ (pc = "pick" /\ ~TickHangs)

\* weak fairness of the loop, the enabling condition of Next written out:
\* the interpreter runs one statement after the other, so the loop is not
\* suspended while it can step
LoopIsFair == []<>(~LoopCanStep) \/ []<><<TRUE>>_vars

SpecDrain ==
    InitDrain /\ [][Next]_vars /\ WF_vars(BeginTick) /\ WF_vars(DriverStep) /\ LoopIsFair

(* ================================ C27 ================================= *)
\* after a tick below the cap the loop stops exactly when
\* current_time > last_arrival and all queues are empty and all cores idle
StopsAtFirstDrain ==
    (pc = "check" /\ current_time < max_ticks) => ((pc' = "done") <=> Drained)

\* where the loop stopped below the cap, every row has been admitted and
\* every admitted task is in the completed set
AllCompletedAtStop ==
    (pc = "done" /\ current_time <= max_ticks)
      => /\ Drained
         /\ Cardinality(Admitted) = Len(arrivals)
         /\ completed_tasks = Admitted

\* C27: drain-and-stop: for any finite arrival table, if the safety cap is
\* not reached the driver loop eventually stops, it stops at the first tick
\* at which current_time > last_arrival and all queues are empty and all
\* cores are idle, and at that point every admitted task is in the
\* completed set.
C27_DrainAndStop ==
    /\ <>(pc = "done")
    /\ []AllCompletedAtStop
    /\ [][StopsAtFirstDrain]_vars

(* ================================ C28 ================================= *)
\* the COMPLETE records of task p
CompleteRecords(p) == {i \in Events("COMPLETE") : logs[i].pid = p}

\* C28: a completed task is final: once a task has a COMPLETE record it is
\* in the completed set, it has exactly one COMPLETE record in the log, and
\* it is in no ready queue and on no core; the completed set holds only
\* such tasks.
C28_CompletedIsFinal ==
    /\ \A p \in Admitted :
         CompleteRecords(p) # {}
           => /\ p \in completed_tasks
              /\ Cardinality(CompleteRecords(p)) = 1
              /\ QueueSlots(p) = 0
              /\ CoreSlots(p) = 0
    /\ \A p \in completed_tasks : CompleteRecords(p) # {}

\* a task completed in an earlier tick, and another task has run since
C28_Witness ==
    \E p \in completed_tasks, i \in Events("RUN") :
      /\ logs[i].pid # p
      /\ logs[i].time > task_map[p].completion_time
      /\ time > task_map[p].completion_time

(* ================================ C29 ================================= *)
\* the DISPATCH records of task p
DispatchRecords(p) == {i \in Events("DISPATCH") : logs[i].pid = p}

FirstStartOrdered ==
    \A p \in Admitted :
      LET t == task_map[p]
      IN  /\ (t.first_start = None) <=> (DispatchRecords(p) = {})
          /\ t.first_start # None
               => /\ \E i \in DispatchRecords(p) :
                       /\ logs[i].time = t.first_start
                       /\ \A j \in DispatchRecords(p) : i <= j
                  /\ t.arrival_time <= t.first_start
                  /\ Waiting(t) >= 0
          /\ p \in completed_tasks
               => (t.first_start # None /\ t.first_start <= t.completion_time)

FirstStartWrittenOnce ==
    \A p \in Admitted :
      task_map[p].first_start # None
        => task_map'[p].first_start = task_map[p].first_start

\* C29: first_start is write-once and ordered: it is unset exactly while
\* the task has never been dispatched, it is set to the tick of the first
\* DISPATCH and never changes on later dispatches, and for every task
\* arrival_time <= first_start (waiting >= 0) and, once completed,
\* first_start <= completion_time.
C29_FirstStart == []FirstStartOrdered /\ [][FirstStartWrittenOnce]_vars

\* a task dispatched for the second time, in a later tick than its first
C29_Witness ==
    \E p \in Admitted :
      /\ Cardinality(DispatchRecords(p)) >= 2
      /\ \E j \in DispatchRecords(p) : logs[j].time > task_map[p].first_start
      /\ task_map[p].first_start > task_map[p].arrival_time

(* ================================ C30 ================================= *)
\* the core whose turn it is is about to run an IDLE-class task for a tick
IdleTaskRuns ==
    /\ pc = "run"
    /\ cores[cur].task # NoTask
    /\ task_map[cores[cur].task].assigned_scheduler = "IDLE"

\* C30: an IDLE-class task runs only when nothing else is available: at no
\* tick does an IDLE task execute while a FIFO, RR or CFS task is waiting
\* in a ready queue.
C30_IdleRunsLast ==
    IdleTaskRuns => (queues.FIFO = <<>> /\ queues.RR = <<>> /\ queues.CFS = {})

(* ================================ C31 ================================= *)
\* the DISPATCH record that put the task of record i on its core: the
\* latest DISPATCH of that task before i
DispatchBefore(i) ==
    CHOOSE d \in DispatchRecords(logs[i].pid) :
      /\ d < i
      /\ \A e \in DispatchRecords(logs[i].pid) : e < i => e <= d

\* the first DISPATCH record on the core of record i after i (0: none yet)
NextDispatchOnCore(i) ==
    LET later == {j \in Events("DISPATCH") : j > i /\ logs[j].core = logs[i].core}
    IN  IF later = {} THEN 0 ELSE CHOOSE j \in later : \A k \in later : j <= k

\* the PREEMPT records of RR tasks
RRPreempts == {i \in Events("PREEMPT") : logs[i].assigned_scheduler = "RR"}

\* after a PREEMPT of an RR task dispatched at t with quantum q, the core's
\* next DISPATCH carries time t + q
NextDispatchAtQuantumEnd ==
    \A i \in RRPreempts :
      NextDispatchOnCore(i) # 0
        => logs[NextDispatchOnCore(i)].time
             = logs[DispatchBefore(i)].time + logs[DispatchBefore(i)].quantum

\* C31: in the baseline, an RR task dispatched at tick t with quantum q and
\* more than q ticks of work remaining has its PREEMPT record logged at
\* time t + q, and the next task of the subqueue is dispatched on that core
\* at time t + q (rr_quantum 100, dispatch at 0: PREEMPT at 100, next
\* DISPATCH at 100).
C31_PreemptAtQuantumEnd ==
    /\ \A i \in RRPreempts :
         logs[i].time = logs[DispatchBefore(i)].time + logs[DispatchBefore(i)].quantum
    /\ NextDispatchAtQuantumEnd

(* ================================ C32 ================================= *)
\* the classes whose quantum is the remaining work
RunToCompletion == {"FIFO", "IDLE"}

\* a core that holds a FIFO or IDLE task has at least as much of the
\* quantum left as the task has work left, and never none
QuantumCoversWork ==
    \A cid \in DOMAIN cores :
      LET p == cores[cid].task
      IN  (p # NoTask /\ task_map[p].assigned_scheduler \in RunToCompletion)
            => /\ cores[cid].time_left >= 1
               /\ cores[cid].time_left >= task_map[p].remaining

NoPreemptRecorded ==
    \A i \in Events("PREEMPT") : logs[i].assigned_scheduler \notin RunToCompletion

\* a FIFO or IDLE task that leaves its core has completed, and it went
\* back to no ready queue
LeavesByCompleting ==
    \A cid \in DOMAIN cores :
      LET p == cores[cid].task
      IN  (/\ p # NoTask
           /\ task_map[p].assigned_scheduler \in RunToCompletion
           /\ cores'[cid].task # p)
            => /\ p \in completed_tasks'
               /\ queues' = queues

\* C32: FIFO and IDLE tasks are never preempted: their quantum is their
\* remaining work at dispatch, so no reachable state has a FIFO or IDLE
\* task on a core with time_left = 0 and remaining > 0, no PREEMPT record
\* is ever logged for them, and the expiry paths (requeue at the front for
\* FIFO, clear the core for IDLE) are never taken.
C32_RunToCompletion ==
    /\ []QuantumCoversWork
    /\ []NoPreemptRecorded
    /\ [][LeavesByCompleting]_vars

\* a FIFO task and an IDLE task have each run for several ticks and
\* completed
C32_Witness ==
    \A sched \in RunToCompletion :
      \E p \in completed_tasks :
        /\ task_map[p].assigned_scheduler = sched
        /\ task_map[p].total_run >= 2

(* ================================ C33 ================================= *)
\* a step that takes a task off its core is the core's own run step, and
\* in it the task either completed or used up the last tick of its quantum
LeavesOnlyWhenDone ==
    \A cid \in DOMAIN cores :
      LET p == cores[cid].task
      IN  (p # NoTask /\ cores'[cid].task # p)
            => /\ pc = "run" /\ cur = cid
               /\ cores'[cid].task = NoTask
               /\ \/ (task_map'[p].remaining = 0 /\ p \in completed_tasks')
                  \/ (cores[cid].time_left = 1 /\ task_map'[p].remaining > 0)

\* a task that holds a core holds no other core
NoMigration ==
    \A p \in Admitted : CoreSlots(p) <= 1

\* C33: a running task leaves its core only by completing (remaining
\* reaches 0) or by quantum expiry (time_left reaches 0): otherwise it is
\* still running on the same core at the next tick, and the arrival of a
\* task of a higher-priority class never removes it from the core.
C33_NoPreemptionByArrival == [][LeavesOnlyWhenDone]_vars /\ []NoMigration

\* a task that has already run keeps its core at its turn while a FIFO
\* task, which arrived later and ranks before it, waits
C33_Witness ==
    /\ pc = "run"
    /\ cores[cur].task # NoTask
    /\ task_map[cores[cur].task].assigned_scheduler # "FIFO"
    /\ task_map[cores[cur].task].total_run >= 1
    /\ queues.FIFO # <<>>
    /\ task_map[Head(queues.FIFO)].arrival_time > task_map[cores[cur].task].arrival_time

(* ================================ C34 ================================= *)
\* every PREEMPT record is of a task that had work left
PreemptHasWorkLeft ==
    \A i \in Events("PREEMPT") : logs[i].remaining > 0

\* the tick in which a task uses up its work, whatever is left of the
\* quantum, logs RUN and COMPLETE and nothing else, completes the task,
\* frees the core and puts the task in no queue
LastTickCompletes ==
    (/\ pc = "run"
     /\ cores[cur].task # NoTask
     /\ task_map[cores[cur].task].remaining <= 1)
      => /\ cores[cur].task \in completed_tasks'
         /\ Len(logs') = Len(logs) + 2
         /\ logs'[Len(logs')].event = "COMPLETE"
         /\ logs'[Len(logs')].pid = cores[cur].task
         /\ logs'[Len(logs')].remaining = 0
         /\ queues' = queues
         /\ cores'[cur].task = NoTask

\* C34: completion takes precedence over quantum expiry: when a task's
\* remaining work and its core's time_left both reach 0 on the same tick,
\* the task gets a COMPLETE record and is not requeued; a PREEMPT record is
\* logged only for a task with remaining > 0 at that tick.
C34_CompletionFirst == []PreemptHasWorkLeft /\ [][LastTickCompletes]_vars

\* an RR task whose quantum at a dispatch was exactly its remaining work,
\* of several ticks, has completed
C34_Witness ==
    \E i \in Events("DISPATCH") :
      /\ logs[i].assigned_scheduler = "RR"
      /\ logs[i].quantum = logs[i].remaining
      /\ logs[i].quantum >= 2
      /\ logs[i].pid \in completed_tasks

(* ========================= AI round robin ============================= *)
(* The AI variant on one core and one row of 250 ticks of work, more than  *)
(* the largest RR quantum, whose policy is SCHED_RR or SCHED_OTHER and      *)
(* whose labels are any the classifier can return.                          *)
InitAIRR ==
    \E pol \in {"SCHED_RR", "SCHED_OTHER"},
       r \in ResourceLabels, i \in InteractivityLabels,
       p \in PriorityLabels, e \in ExecutionLabels :
      DriverInit("AI", 1, DefaultRRQuantum,
                 <<Row(1, 0, pol, 250, 0, 0, None, Clf(r, i, p, e))>>, MaxTicksCap)

SpecAIRR == InitAIRR /\ [][Next]_vars

(* ================================ C35 ================================= *)
\* the admitted tasks of class RR
RRTasks == {p \in Admitted : task_map[p].assigned_scheduler = "RR"}

\* q is the quantum of a task whose score is score200 / 200: 100 up to
\* 2.5, 200 from 3.15, and in between the floor of
\* 100 + 100 * (score - 2.5) / 0.65
QuantumOfScore(q, score200) ==
    /\ q \in 100..200
    /\ score200 <= 500 => q = 100
    /\ score200 >= 630 => q = 200
    /\ (500 < score200 /\ score200 < 630)
         => /\ 130 * (q - 100) <= 100 * (score200 - 500)
            /\ 100 * (score200 - 500) < 130 * (q + 1 - 100)

\* the ADMIT record of task p
AdmitRecord(p) == CHOOSE i \in Events("ADMIT") : logs[i].pid = p

\* C35: in the AI variant the RR quantum is 100 for subqueue_score <= 2.5,
\* 200 for score >= 3.15 and the floored linear interpolation in between,
\* so it always lies in [100, 200]; and the quantum set for an RR task at
\* admission equals the quantum set at each of its later dispatches.
C35_RRQuantumFromScore ==
    \A p \in RRTasks :
      /\ QuantumOfScore(task_map[p].quantum, task_map[p].score200)
      /\ QuantumOfScore(logs[AdmitRecord(p)].quantum, task_map[p].score200)
      /\ \A i \in DispatchRecords(p) :
           logs[i].quantum = logs[AdmitRecord(p)].quantum

\* an RR task whose score lies strictly between 2.5 and 3.15 has been
\* dispatched a second time, after its first quantum expired
C35_Witness ==
    \E p \in RRTasks :
      /\ 500 < task_map[p].score200 /\ task_map[p].score200 < 630
      /\ Cardinality(DispatchRecords(p)) >= 2
      /\ \E i \in Events("PREEMPT") : logs[i].pid = p

(* ================================ C36 ================================= *)
\* the step is the run of one tick of task p, which is assigned to CFS
RunsAsCfs(p) ==
    /\ pc = "run"
    /\ cores[cur].task = p
    /\ task_map[p].assigned_scheduler = "CFS"

\* in every step the vruntime of an admitted task does not decrease; it
\* changes only when the task runs a tick as a CFS task, and then it
\* grows, a weight of zero or less having become 1 (in the baseline the
\* growth is then NICE0_WEIGHT / 1)
VruntimeSteps ==
    \A p \in Admitted :
      /\ RatLeq(task_map[p].vruntime, task_map'[p].vruntime)
      /\ task_map'[p].vruntime # task_map[p].vruntime => RunsAsCfs(p)
      /\ RunsAsCfs(p)
           => /\ RatLess(task_map[p].vruntime, task_map'[p].vruntime)
              /\ task_map[p].weight <= 0
                   => /\ task_map'[p].weight = 1
                      /\ variant = "BASE"
                           => task_map'[p].vruntime
                                = RatAdd(task_map[p].vruntime, RatInt(NICE0_WEIGHT))

\* C36: after admission a task's vruntime never decreases, and it changes
\* only on a tick in which the task runs while assigned to CFS (running a
\* FIFO, RR or IDLE task, enqueueing, dispatching and preempting leave it
\* unchanged); this holds also for tasks whose weight is zero or negative,
\* which is clamped to 1.0 before the update.
C36_VruntimeMonotone == [][VruntimeSteps]_vars

\* a CFS task admitted with a negative weight has run two ticks, and
\* another task of another class has run too
C36_Witness ==
    /\ \E p \in Admitted :
         /\ task_map[p].features.se_load_weight = -5
         /\ task_map[p].assigned_scheduler = "CFS"
         /\ task_map[p].total_run >= 2
    /\ \E p \in Admitted :
         /\ task_map[p].assigned_scheduler # "CFS"
         /\ task_map[p].total_run >= 1

(* ================================ C37 ================================= *)
\* C37: in every tick each task executes at most one unit of work: no task
\* has more than one RUN record with the same time value, on any number of
\* cores, even when it is preempted on one core and other cores are idle
\* in that same tick.
C37_OneRunPerTick ==
    \A i, j \in Events("RUN") :
      (i # j /\ logs[i].pid = logs[j].pid) => logs[i].time # logs[j].time

(* ================================ C38 ================================= *)
\* core_runs of compute_aggregate_metrics: the RUN records on core cid
CoreRuns(cid) == Cardinality({i \in Events("RUN") : logs[i].core = cid})

\* total_time of compute_aggregate_metrics, read when the driver stopped,
\* where self.time is the tick of the last call of tick()
TotalTime == Max(1, time)

\* C38: the per-core utilization reported by compute_aggregate_metrics
\* never exceeds 1: for every core, the number of RUN records on that core
\* is at most max(1, current_time) at the end of any run of the driver.
C38_UtilizationAtMostOne ==
    pc = "done" =>
      \A cid \in DOMAIN cores :
        /\ CoreRuns(cid) <= TotalTime
        /\ CoreRuns(cid) <= Max(1, current_time)

(* ================================ C39 ================================= *)
\* task p is assigned to CFS and neither runs nor has completed
WaitingCfs(p) ==
    /\ task_map[p].assigned_scheduler = "CFS"
    /\ CoreSlots(p) = 0
    /\ p \notin completed_tasks

\* float equality: false when either side is NaN
FloatEqual(a, b) == ~IsNaN(a) /\ ~IsNaN(b) /\ a = b

HeapEntriesOf(p) == {e \in queues.CFS : e.pid = p}

\* one entry per waiting CFS task, none for any other task
OneEntryPerWaiting ==
    \A p \in Admitted :
      Cardinality(HeapEntriesOf(p)) = (IF WaitingCfs(p) THEN 1 ELSE 0)

SnapshotsAreLive ==
    \A e \in queues.CFS : FloatEqual(e.vr, task_map[e.pid].vruntime)

\* C39: in every reachable state the CFS heap holds exactly one entry per
\* waiting CFS task and no entry for a running or completed task, and
\* every entry's snapshot vruntime equals its task's live vruntime; hence
\* the stale-entry branch of _cfs_pop_min is never taken (the latest pop
\* returned in its first iteration, and no pop is about to miss) and the
\* heap length equals the number of waiting CFS tasks.
C39_HeapIsExact ==
    /\ OneEntryPerWaiting
    /\ SnapshotsAreLive
    /\ lastpop.iters <= 1
    /\ ~(pc = "pick" /\ TickHangs)
    /\ Cardinality(queues.CFS) = Cardinality({p \in Admitted : WaitingCfs(p)})

(* ================================ C40 ================================= *)
\* the log records of task p, in order
TaskLog(p) == SelectSeq(logs, LAMBDA r : r.pid = p)

\* the stage of the life cycle a task is in after record r, from the stage
\* st it was in before and the core of its latest DISPATCH ("bad": r does
\* not fit the life cycle)
StageAfter(st, core, r) ==
    CASE r.event = "ADMIT"    -> IF st = "new" /\ r.core = None THEN "admitted" ELSE "bad"
      [] r.event = "ENQUEUE"  -> IF st = "admitted" /\ r.core = None THEN "waiting" ELSE "bad"
      [] r.event = "DISPATCH" -> IF st = "waiting" /\ r.core # None THEN "dispatched" ELSE "bad"
      [] r.event = "RUN"      ->
           IF st \in {"dispatched", "running"} /\ r.core = core THEN "running" ELSE "bad"
      [] r.event = "PREEMPT"  -> IF st = "running" /\ r.core = core THEN "waiting" ELSE "bad"
      [] r.event = "COMPLETE" -> IF st = "running" /\ r.core = core THEN "completed" ELSE "bad"
      [] OTHER -> "bad"

\* the stage after all the records of recs
RECURSIVE LifeCycle(_, _, _)
LifeCycle(recs, st, core) ==
    IF recs = <<>> \/ st = "bad" THEN st
    ELSE LifeCycle(Tail(recs), StageAfter(st, core, Head(recs)),
                   IF Head(recs).event = "DISPATCH" THEN Head(recs).core ELSE core)

RunRecords(p) == {i \in Events("RUN") : logs[i].pid = p}

\* C40: the log records of each task form a well-ordered life cycle: one
\* ADMIT, then one ENQUEUE, then one or more rounds of DISPATCH followed by
\* at least one RUN, each round ending in PREEMPT except the last, which
\* ends in COMPLETE; no RUN, PREEMPT or COMPLETE record of a task appears
\* without a preceding DISPATCH of that task on the same core, and the
\* number of RUN records of a task equals its total_run.
C40_LifeCycle ==
    \A p \in Admitted :
      /\ LifeCycle(TaskLog(p), "new", None) \in
           (IF p \in completed_tasks
            THEN {"completed"}
            ELSE {"waiting", "dispatched", "running"})
      /\ Cardinality(RunRecords(p)) = task_map[p].total_run

\* a task has completed after a round that ended in PREEMPT and a round
\* of several RUN records
C40_Witness ==
    \E p \in completed_tasks :
      /\ \E i \in Events("PREEMPT") : logs[i].pid = p
      /\ task_map[p].total_run >= 3

====
